---- MODULE Spec2Model ----
(***************************************************************************)
(* GymApp-bot: the LOG sheet of the workout spreadsheet, the writer        *)
(* save_workout_log and the two reconstruction queries get_last_workout    *)
(* and get_exercise_history (src/google_sheets.py), with the handlers of   *)
(* src/bot.py that call them, and the add-exercise conversation of         *)
(* src/bot.py, which writes the EXERCISES sheet through add_exercise.      *)
(*                                                                         *)
(* A Python str is modelled as a sequence of symbols.  A symbol is a       *)
(* one-character string; a word that no operation looks inside (an         *)
(* exercise name, a uuid, the unit markers) is a single symbol.  Numbers   *)
(* with a fractional part are held in tenths (825 is 82.5).                *)
(***************************************************************************)
EXTENDS Integers, Sequences, FiniteSets, TLC

VARIABLES
    header,   \* first row of the LOG sheet: the name each column carries
    log,      \* data rows of the LOG sheet, top to bottom (header excluded)
    journal,  \* history of the save_workout_log calls that wrote to the sheet
    resp,     \* the result of the operation in progress, "none" when idle
    state,    \* FSMContext of the chat: the FSM state and the stored data
    chat,     \* the chat: the group keyboards still on screen, and the trace
              \* of the add-exercise conversation
    exercises_sheet  \* data rows of the EXERCISES sheet, top to bottom

vars == <<header, log, journal, resp, state, chat, exercises_sheet>>

-----------------------------------------------------------------------------
(* Bounds of the model *)

MaxRows == 3      \* rows the LOG sheet may hold
MaxLegacy == 3    \* rows already in the sheet when the bot connects
MaxSaves == 2     \* save requests handled
MaxClock == 2     \* instants the wall clock runs through
MaxKeyboards == 2 \* group keyboards on screen in the chat
MaxCalls == 2     \* add_exercise calls followed while the FSM waits for a photo
MaxExercises == 2 \* rows the EXERCISES sheet may hold

-----------------------------------------------------------------------------
(* Python str primitives *)

Digit == {"0", "1", "2", "3", "4", "5", "6", "7", "8", "9"}

DigitVal(c) ==
    CASE c = "0" -> 0 [] c = "1" -> 1 [] c = "2" -> 2 [] c = "3" -> 3
      [] c = "4" -> 4 [] c = "5" -> 5 [] c = "6" -> 6 [] c = "7" -> 7
      [] c = "8" -> 8 [] c = "9" -> 9

DigitChar(n) ==
    CASE n = 0 -> "0" [] n = 1 -> "1" [] n = 2 -> "2" [] n = 3 -> "3"
      [] n = 4 -> "4" [] n = 5 -> "5" [] n = 6 -> "6" [] n = 7 -> "7"
      [] n = 8 -> "8" [] n = 9 -> "9"

\* ord(c) for the characters that occur in Date cells
Ord(c) ==
    CASE c = " " -> 32 [] c = "," -> 44 [] c = "-" -> 45 [] c = "." -> 46
      [] c = ":" -> 58
      [] c \in Digit -> 48 + DigitVal(c)
      [] OTHER -> 1000

\* c in s
Contains(s, c) == \E i \in 1..Len(s) : s[i] = c

\* s[i:]
Drop(s, i) == SubSeq(s, i + 1, Len(s))

\* position of the first c in s, Len(s)+1 when there is none
Find(s, c) ==
    LET at == {i \in 1..Len(s) : s[i] = c}
    IN  IF at = {} THEN Len(s) + 1 ELSE CHOOSE i \in at : \A j \in at : i <= j

\* s.split(c)[0]
SplitFirst(s, c) == SubSeq(s, 1, Find(s, c) - 1)

\* s.split(c)
RECURSIVE Split(_, _)
Split(s, c) ==
    IF ~Contains(s, c) THEN <<s>>
    ELSE <<SplitFirst(s, c)>> \o Split(Drop(s, Find(s, c)), c)

\* s.strip(): s from its first to its last symbol that is not a space
Strip(s) ==
    LET inked == {i \in 1..Len(s) : s[i] # " "}
    IN  IF inked = {} THEN <<>>
        ELSE SubSeq(s, CHOOSE i \in inked : \A j \in inked : i <= j,
                       CHOOSE i \in inked : \A j \in inked : i >= j)

\* s.replace(a, b) for single symbols a, b
Replace(s, a, b) == [i \in 1..Len(s) |-> IF s[i] = a THEN b ELSE s[i]] \o <<>>

\* s.replace(a, "")
Remove(s, a) == SelectSeq(s, LAMBDA c : c # a)

\* str comparison a < b (lexicographic by code point)
StrLess(a, b) ==
    LET n == IF Len(a) < Len(b) THEN Len(a) ELSE Len(b)
        diff == {i \in 1..n : a[i] # b[i]}
        d == CHOOSE i \in diff : \A j \in diff : i <= j
    IN  IF diff = {} THEN Len(a) < Len(b) ELSE Ord(a[d]) < Ord(b[d])

AllDigits(s) == \A i \in 1..Len(s) : s[i] \in Digit

\* value of a run of decimal digits
RECURSIVE DigitsVal(_)
DigitsVal(s) ==
    IF s = <<>> THEN 0
    ELSE 10 * DigitsVal(SubSeq(s, 1, Len(s) - 1)) + DigitVal(s[Len(s)])

\* str(n) for n >= 0
RECURSIVE IntStr(_)
IntStr(n) == IF n < 10 THEN <<DigitChar(n)>> ELSE IntStr(n \div 10) \o <<DigitChar(n % 10)>>

\* '%02d' % n, the padding of strftime's %m %d %H %M
Pad2(n) == <<DigitChar(n \div 10), DigitChar(n % 10)>>

-----------------------------------------------------------------------------
(* datetime: a date is the number year*10000 + month*100 + day, so that    *)
(* comparing dates is comparing numbers; datetime.min is 0001-01-01.       *)

DateMin == 10101

NoDate == 0   \* strptime raised ValueError

DaysInMonth(y, m) ==
    IF m \in {4, 6, 9, 11} THEN 30
    ELSE IF m = 2
         THEN (IF (y % 4 = 0 /\ y % 100 # 0) \/ y % 400 = 0 THEN 29 ELSE 28)
         ELSE 31

MkDate(y, m, d) ==
    IF y >= 1 /\ m \in 1..12 /\ d >= 1 /\ d <= DaysInMonth(y, m)
    THEN y * 10000 + m * 100 + d
    ELSE NoDate

\* the three directive patterns of _strptime: %d and %m take one or two
\* digits, %Y exactly four; the whole text must be consumed
IsDayOrMonthField(s) == Len(s) \in {1, 2} /\ AllDigits(s) /\ DigitsVal(s) >= 1

IsYearField(s) == Len(s) = 4 /\ AllDigits(s)

\* datetime.strptime(s, "%d.%m.%Y"); NoDate when it raises
StrptimeDMY(s) ==
    LET p == Split(s, ".")
    IN  IF Len(p) = 3 /\ IsDayOrMonthField(p[1]) /\ IsDayOrMonthField(p[2])
           /\ IsYearField(p[3])
        THEN MkDate(DigitsVal(p[3]), DigitsVal(p[2]), DigitsVal(p[1]))
        ELSE NoDate

\* datetime.strptime(s, "%Y-%m-%d"); NoDate when it raises
StrptimeYMD(s) ==
    LET p == Split(s, "-")
    IN  IF Len(p) = 3 /\ IsYearField(p[1]) /\ IsDayOrMonthField(p[2])
           /\ IsDayOrMonthField(p[3])
        THEN MkDate(DigitsVal(p[1]), DigitsVal(p[2]), DigitsVal(p[3]))
        ELSE NoDate

-----------------------------------------------------------------------------
(* Number conversions.  float(s) is modelled on the texts of this model:   *)
(* an optional sign, then digits with at most one digit after the point,   *)
(* or the word inf.                                                        *)

ValueError == [ok |-> FALSE, v |-> 0, inf |-> FALSE]

Float(n) == [ok |-> TRUE, v |-> n, inf |-> FALSE]

\* the magnitude that stands for float('inf'): above every number of the
\* model
Inf == 1000000000

\* float('inf') and float('-inf')
Infinite(negative) == [ok |-> TRUE, v |-> IF negative THEN 0 - Inf ELSE Inf, inf |-> TRUE]

\* int(f) raises OverflowError: f is an infinity
IntOverflows(f) == f.ok /\ f.inf

\* float(s): the value in tenths, or ValueError
PyFloat(s) ==
    LET t == Strip(s)
        signed == t # <<>> /\ t[1] \in {"-", "+"}
        u == IF signed THEN Tail(t) ELSE t
        p == Split(u, ".")
        mag == CASE Len(p) = 1 -> 10 * DigitsVal(p[1])
                 [] Len(p) = 2 /\ Len(p[2]) = 0 -> 10 * DigitsVal(p[1])
                 [] Len(p) = 2 /\ Len(p[2]) = 1 ->
                        10 * DigitsVal(p[1]) + DigitVal(p[2][1])
    IN  IF u = <<"i", "n", "f">> THEN Infinite(signed /\ t[1] = "-")
        ELSE IF u # <<>> /\ u # <<".">> /\ Len(p) <= 2
           /\ \A i \in 1..Len(p) : AllDigits(p[i])
        THEN Float(IF signed /\ t[1] = "-" THEN 0 - mag ELSE mag)
        ELSE ValueError

\* int(x) of a float held in tenths: truncation toward zero
Trunc(v) == IF v >= 0 THEN v \div 10 ELSE 0 - ((0 - v) \div 10)

\* int(s) of bot.py's query parameter; ValueError unless an optional sign
\* and digits
PyInt(s) ==
    LET t == Strip(s)
        signed == t # <<>> /\ t[1] \in {"-", "+"}
        u == IF signed THEN Tail(t) ELSE t
    IN  IF u # <<>> /\ AllDigits(u)
        THEN Float(IF signed /\ t[1] = "-" THEN 0 - DigitsVal(u) ELSE DigitsVal(u))
        ELSE ValueError

\* s.lower() on the unit words: "Min" and "Sec" are the capitalised
\* spellings of the minute and second markers "min" and "sec"
Lower(s) ==
    [i \in 1..Len(s) |->
        IF s[i] = "Min" THEN "min" ELSE IF s[i] = "Sec" THEN "sec" ELSE s[i]] \o <<>>

-----------------------------------------------------------------------------
(* The environment: the clock, the uuid generator, the sheet's formatting *)

\* datetime.now() at the i-th instant of the run
Instant(i) ==
    IF i = 1
    THEN [Y |-> 2025, M |-> 12, D |-> 31, h |-> 19, mi |-> 17]
    ELSE [Y |-> 2026, M |-> 1, D |-> i - 1, h |-> 8, mi |-> 5]

\* Uuid4 drawing the same token every time
Uuid4Repeats(n) == <<"uuid1">>

\* str(uuid.uuid4()): a token never drawn before; n numbers the draws that
\* reached the sheet
Uuid4(n) == << <<"uuid1">>, <<"uuid2">>, <<"uuid3">>, <<"uuid4">>, <<"uuid5">> >>[n]

\* the text the sheet shows for a number written to a cell: the sheet has
\* the Russian locale, whose decimal separator is the comma
CellText(v) ==
    IF v % 10 = 0 THEN IntStr(v \div 10)
    ELSE IntStr(v \div 10) \o <<",", DigitChar(v % 10)>>

\* the columns of the LOG sheet, named by what save_workout_log puts in them
Columns == {"Date", "Exercise", "Weight", "Reps", "Rest", "Set_Group_ID"}

\* the header row the sheet is created with
StandardHeader == [c \in Columns |-> c]

\* name in headers
HasColumn(hdr, name) == \E c \in DOMAIN hdr : hdr[c] = name

\* the column headers.index(name) points at
ColumnOf(hdr, name) == CHOOSE c \in DOMAIN hdr : hdr[c] = name

\* log_sheet.get_all_records(): one dict per data row, keyed by the header
\* row; a name the header row does not hold is no key of the dicts
get_all_records(hdr, rows) ==
    LET keys == {hdr[c] : c \in DOMAIN hdr}
    IN  [i \in 1..Len(rows) |-> [k \in keys |-> rows[i][ColumnOf(hdr, k)]]] \o <<>>

\* row.get(key, default)
Get(row, key, default) == IF key \in DOMAIN row THEN row[key] ELSE default

\* the value of row.get(key) for a missing key
None == <<"None">>

-----------------------------------------------------------------------------
(* get_last_workout *)

\* a list sorted by list.sort(reverse=True): descending, and stable, so
\* elements with equal keys keep their original relative order; less is
\* the set of pairs <<a, b>> of elements with key(a) < key(b)
SortReverse(s, less) ==
    LET n == Len(s)
        rank == [i \in 1..n |->
                    1 + Cardinality({j \in 1..n :
                            \/ <<s[i], s[j]>> \in less
                            \/ (<<s[j], s[i]>> \notin less /\ j < i)})] \o <<>>
    IN  [k \in 1..n |-> s[CHOOSE i \in 1..n : rank[i] = k]] \o <<>>

\* the local function parse_date: every exception ends in datetime.min
parse_date(cell) ==
    LET date_str == Strip(cell)
        date_part == Strip(SplitFirst(date_str, ","))
        parts == Split(date_part, ".")
        OrMin(d) == IF d = NoDate THEN DateMin ELSE d
    IN  IF Contains(date_str, ",") /\ Contains(date_part, ".") /\ Len(parts) >= 3
        THEN OrMin(StrptimeDMY(parts[1] \o <<".">> \o parts[2] \o <<".">> \o parts[3]))
        ELSE IF Contains(date_str, " ")
        THEN OrMin(StrptimeDMY(SplitFirst(date_str, " ")))
        ELSE IF Contains(date_str, "-")
        THEN OrMin(StrptimeYMD(SplitFirst(date_str, " ")))
        ELSE DateMin

\* the date text compared when grouping: the part of the Date cell before
\* the first comma, else before the first space
DatePart(cell) ==
    LET s == Strip(cell)
    IN  IF Contains(s, ",") THEN Strip(SplitFirst(s, ","))
        ELSE IF Contains(s, " ") THEN Strip(SplitFirst(s, " "))
        ELSE s

\* ExLogs without the filter on the exercise name
ExLogsAnyExercise(rows, exercise_name) == [i \in 1..Len(rows) |-> i] \o <<>>

\* ex_logs before the sort: the rows (by position in the sheet) whose
\* Exercise cell is the requested exercise
ExLogs(rows, exercise_name) ==
    SelectSeq([i \in 1..Len(rows) |-> i],
              LAMBDA i : Strip(Get(rows[i], "Exercise", <<>>)) = Strip(exercise_name))

\* ex_logs after ex_logs.sort(key=parse_date, reverse=True)
ExLogsSorted(rows, exercise_name) ==
    LET key == [i \in 1..Len(rows) |-> parse_date(Get(rows[i], "Date", <<>>))] \o <<>>
        all == 1..Len(rows)
    IN  SortReverse(ExLogs(rows, exercise_name),
                    {p \in all \X all : key[p[1]] < key[p[2]]})

\* SameSession comparing the date text alone
SameDateText(rows, i, last) ==
    DatePart(Get(rows[i], "Date", <<>>)) = DatePart(Get(rows[last], "Date", <<>>))

\* the test of the loop: same date text and same Set_Group_ID as ex_logs[0]
SameSession(rows, i, last) ==
    /\ DatePart(Get(rows[i], "Date", <<>>)) = DatePart(Get(rows[last], "Date", <<>>))
    /\ Strip(Get(rows[i], "Set_Group_ID", <<>>))
           = Strip(Get(rows[last], "Set_Group_ID", <<>>))

\* the loop over ex_logs: rows are taken until the first one that fails
\* the test (break)
RECURSIVE TakeSession(_, _, _)
TakeSession(rows, s, last) ==
    IF s = <<>> THEN <<>>
    ELSE IF SameSession(rows, s[1], last)
         THEN <<s[1]>> \o TakeSession(rows, Tail(s), last)
         ELSE <<>>

\* s[::-1]
Reversed(s) == [k \in 1..Len(s) |-> s[Len(s) + 1 - k]] \o <<>>

\* the rows get_last_workout returns, in the order it returns them
LastWorkoutRows(rows, exercise_name) ==
    LET ex_logs == ExLogsSorted(rows, exercise_name)
    IN  IF ex_logs = <<>> THEN <<>>
        ELSE Reversed(TakeSession(rows, ex_logs, ex_logs[1]))

\* LastWeight without the replacement of the decimal comma
LastWeightNoComma(cell) ==
    LET weight_str == Strip(cell)
        f == PyFloat(weight_str)
    IN  IF cell # None /\ weight_str # <<>> /\ f.ok THEN f.v ELSE 0

\* weight of a row (tenths): 0 for a missing, empty or non-numeric cell
LastWeight(cell) ==
    LET weight_str == Strip(Replace(cell, ",", "."))
        f == PyFloat(weight_str)
    IN  IF cell # None /\ weight_str # <<>> /\ f.ok THEN f.v ELSE 0

\* reps of a row: int(float(...)), 0 for a missing, empty or non-numeric
\* cell
LastReps(cell) ==
    LET reps_str == Strip(Replace(cell, ",", "."))
        f == PyFloat(reps_str)
    IN  IF cell # None /\ reps_str # <<>> /\ f.ok THEN Trunc(f.v) ELSE 0

\* LastRest taking a plain number above 59 for seconds and turning it
\* into whole minutes
LastRestToMinutes(cell) ==
    LET plain == PyFloat(Strip(Replace(cell, ",", ".")))
    IN  IF ~plain.ok THEN 60
        ELSE IF plain.v > 590 THEN Trunc(plain.v) \div 60 ELSE Trunc(plain.v)

\* rest of a row in seconds; 60 for an empty or non-numeric cell
LastRest(cell) ==
    LET rest_str == Strip(Replace(cell, ",", "."))
        inMin == PyFloat(Strip(Remove(Remove(rest_str, "min"), "sec")))
        inSec == PyFloat(Strip(Remove(rest_str, "sec")))
        plain == PyFloat(rest_str)
    IN  IF rest_str = <<>> THEN 60
        ELSE IF Contains(Lower(rest_str), "min")
        THEN (IF inMin.ok THEN Trunc(inMin.v * 60) ELSE 60)
        ELSE IF Contains(Lower(rest_str), "sec")
        THEN (IF inSec.ok THEN Trunc(inSec.v) ELSE 60)
        ELSE (IF plain.ok THEN Trunc(plain.v) ELSE 60)

\* str(60), the text of the default of item.get('Rest', 60)
DefaultRest == <<"6", "0">>

\* int(float(reps_str)) raises OverflowError, which 'except ValueError'
\* does not catch
LastRepsOverflows(cell) ==
    cell # None /\ IntOverflows(PyFloat(Strip(Replace(cell, ",", "."))))

\* int(...) of the rest raises OverflowError, in the branch the text takes
LastRestOverflows(cell) ==
    LET rest_str == Strip(Replace(cell, ",", "."))
    IN  IF Contains(Lower(rest_str), "min")
        THEN IntOverflows(PyFloat(Strip(Remove(Remove(rest_str, "min"), "sec"))))
        ELSE IF Contains(Lower(rest_str), "sec")
        THEN IntOverflows(PyFloat(Strip(Remove(rest_str, "sec"))))
        ELSE IntOverflows(PyFloat(rest_str))

\* the conversions of a row raise an exception that leaves the loop
LastSetRaises(row) ==
    \/ LastRepsOverflows(Get(row, "Reps", None))
    \/ LastRestOverflows(Get(row, "Rest", DefaultRest))

LastSet(row) ==
    [weight |-> LastWeight(Get(row, "Weight", None)),
     reps |-> LastReps(Get(row, "Reps", None)),
     rest |-> LastRest(Get(row, "Rest", DefaultRest))]

\* get_last_workout answering from the rows whether or not the read
\* went through
get_last_workout_unguarded(rows, exercise_name, read_ok) ==
    LET idx == LastWorkoutRows(rows, exercise_name)
    IN  IF \E k \in 1..Len(idx) : LastSetRaises(rows[idx[k]])
        THEN [idx |-> <<>>, sets |-> <<>>]
        ELSE [idx |-> idx, sets |-> [k \in 1..Len(idx) |-> LastSet(rows[idx[k]])]]

\* get_last_workout(exercise_name) on the dicts of get_all_records: the
\* list it returns (sets) and, beside it, the sheet position of the row each
\* set was read from (idx).  read_ok is whether get_all_records returned;
\* when it raises, or a conversion of a row of the session raises an
\* exception its own try does not catch, the outer except clause returns []
get_last_workout(rows, exercise_name, read_ok) ==
    LET idx == LastWorkoutRows(rows, exercise_name)
    IN  IF ~read_ok \/ \E k \in 1..Len(idx) : LastSetRaises(rows[idx[k]])
        THEN [idx |-> <<>>, sets |-> <<>>]
        ELSE [idx |-> idx, sets |-> [k \in 1..Len(idx) |-> LastSet(rows[idx[k]])]]

-----------------------------------------------------------------------------
(* get_exercise_history *)

HistWeight(cell) ==
    LET weight_val == Strip(cell)
        weight_str == Strip(Replace(weight_val, ",", "."))
        f == PyFloat(weight_str)
    IN  IF weight_val # <<>> /\ weight_str # <<>> /\ f.ok THEN f.v ELSE 0

HistReps(cell) ==
    LET reps_val == Strip(cell)
        reps_str == Strip(Replace(reps_val, ",", "."))
        f == PyFloat(reps_str)
    IN  IF reps_val # <<>> /\ reps_str # <<>> /\ f.ok THEN Trunc(f.v) ELSE 0

HistRest(cell) ==
    LET rest_val == Strip(cell)
        minStr == Strip(Remove(Remove(Replace(rest_val, ",", "."), "min"), "sec"))
        secStr == Strip(Remove(Replace(rest_val, ",", "."), "sec"))
        inMin == PyFloat(minStr)
        inSec == PyFloat(secStr)
    IN  IF rest_val = <<>> THEN 0
        ELSE IF Contains(Lower(rest_val), "min")
        THEN (IF minStr # <<>> /\ inMin.ok THEN Trunc(inMin.v * 60) ELSE 0)
        ELSE (IF secStr # <<>> /\ inSec.ok THEN Trunc(inSec.v) ELSE 0)

\* int(float(reps_str)) raises OverflowError, which
\* 'except (ValueError, TypeError)' does not catch
HistRepsOverflows(cell) ==
    IntOverflows(PyFloat(Strip(Replace(Strip(cell), ",", "."))))

\* int(...) of the rest raises OverflowError, in the branch the text takes
HistRestOverflows(cell) ==
    LET rest_val == Strip(cell)
    IN  IF Contains(Lower(rest_val), "min")
        THEN IntOverflows(PyFloat(Strip(Remove(Remove(Replace(rest_val, ",", "."), "min"), "sec"))))
        ELSE IntOverflows(PyFloat(Strip(Remove(Replace(rest_val, ",", "."), "sec"))))

\* the conversions of a row raise an exception that leaves the loop
HistRecordRaises(row) == HistRepsOverflows(row.Reps) \/ HistRestOverflows(row.Rest)

\* HistRows without the filter on the exercise name
HistRowsAnyExercise(rows, exercise_name) == [i \in 1..Len(rows) |-> i] \o <<>>

\* exercise_records before the sort: the rows of the exercise, by position
HistRows(rows, exercise_name) ==
    SelectSeq([i \in 1..Len(rows) |-> i],
              LAMBDA i : Strip(rows[i].Exercise) = Strip(exercise_name))

\* exercise_records.sort(key=lambda x: x["date"], reverse=True): the key is
\* the stripped text of the Date cell, compared as a string
HistRowsSorted(rows, exercise_name) ==
    LET key == [i \in 1..Len(rows) |-> Strip(rows[i].Date)] \o <<>>
        all == 1..Len(rows)
    IN  SortReverse(HistRows(rows, exercise_name),
                    {p \in all \X all : StrLess(key[p[1]], key[p[2]])})

\* SliceTo cutting one element late, s[:limit + 1]
SliceToOneMore(s, limit) == SubSeq(s, 1, IF limit + 1 < Len(s) THEN limit + 1 ELSE Len(s))

\* s[:limit], for a negative limit too
SliceTo(s, limit) ==
    IF limit >= 0
    THEN SubSeq(s, 1, IF limit < Len(s) THEN limit ELSE Len(s))
    ELSE SubSeq(s, 1, IF Len(s) + limit > 0 THEN Len(s) + limit ELSE 0)

\* the rows get_exercise_history returns, in the order it returns them
HistoryRows(rows, exercise_name, limit) ==
    SliceTo(HistRowsSorted(rows, exercise_name), limit)

HistRecord(row) ==
    [date |-> Strip(row.Date),
     weight |-> HistWeight(row.Weight),
     reps |-> HistReps(row.Reps),
     rest |-> HistRest(row.Rest),
     set_group_id |-> Strip(row.Set_Group_ID)]

\* the six names get_exercise_history looks up with headers.index
HistColumns == {"Date", "Exercise", "Weight", "Reps", "Rest", "Set_Group_ID"}

\* the data rows as the loop reads them: the cell of each name taken at
\* the position headers.index found
RowsByIndex(hdr, rows) ==
    [i \in 1..Len(rows) |-> [k \in HistColumns |-> rows[i][ColumnOf(hdr, k)]]] \o <<>>

\* get_exercise_history(exercise_name, limit) on the sheet (header row hdr,
\* data rows): the list it returns (data) and the sheet position of the
\* row of each record (idx).  read_ok is whether get_all_values returned;
\* when it raises, the except clause returns []
get_exercise_history(hdr, rows, exercise_name, limit, read_ok) ==
    IF ~read_ok \/ rows = <<>> \/ \E k \in HistColumns : ~HasColumn(hdr, k)
    THEN [idx |-> <<>>, data |-> <<>>]
    ELSE LET cells == RowsByIndex(hdr, rows)
             all == HistRows(cells, exercise_name)
             idx == HistoryRows(cells, exercise_name, limit)
         IN  IF \E k \in 1..Len(all) : HistRecordRaises(cells[all[k]])
             THEN [idx |-> <<>>, data |-> <<>>]
             ELSE [idx |-> idx, data |-> [k \in 1..Len(idx) |-> HistRecord(cells[idx[k]])]]

-----------------------------------------------------------------------------
(* save_workout_log *)

\* the timestamp f"{now.strftime('%Y.%m.%d')}, {now.strftime('%H:%M')}"
Timestamp(now) ==
    IntStr(now.Y) \o <<".">> \o Pad2(now.M) \o <<".">> \o Pad2(now.D)
        \o <<",", " ">> \o Pad2(now.h) \o <<":">> \o Pad2(now.mi)

\* RowsToAdd reading the clock for each row, a minute passing between rows
RowsToAddClockPerRow(workout_data, set_group_id, now) ==
    [k \in 1..Len(workout_data) |->
        [Date |-> Timestamp([now EXCEPT !.mi = now.mi + k - 1]),
         Exercise |-> workout_data[k].exercise,
         Weight |-> CellText(workout_data[k].weight),
         Reps |-> CellText(10 * workout_data[k].reps),
         Rest |-> CellText(10 * workout_data[k].rest),
         Set_Group_ID |-> set_group_id]]

\* rows_to_add: one row per set, all with the one timestamp and the one id
RowsToAdd(workout_data, set_group_id, now) ==
    [k \in 1..Len(workout_data) |->
        [Date |-> Timestamp(now),
         Exercise |-> workout_data[k].exercise,
         Weight |-> CellText(workout_data[k].weight),
         Reps |-> CellText(10 * workout_data[k].reps),
         Rest |-> CellText(10 * workout_data[k].rest),
         Set_Group_ID |-> set_group_id]]

\* AppendRows putting the new rows above the rows of the sheet
InsertRowsOnTop(rows, rows_to_add) == rows_to_add \o rows

\* log_sheet.append_rows(rows_to_add): one request, the rows land together
\* below the last row
AppendRows(rows, rows_to_add) == rows \o rows_to_add

\* the keys the loop reads from each item of workout_data
WorkoutKeys == {"exercise", "weight", "reps", "rest"}

\* building rows_to_add raises KeyError: an item lacks one of the keys
BuildRaises(workout_data) ==
    \E k \in 1..Len(workout_data) : ~(WorkoutKeys \subseteq DOMAIN workout_data[k])

\* save_workout_log with a failure of the read after the append turned
\* into the result False
save_workout_log_strict(rows, workout_data, set_group_id, now, append_ok, check_ok) ==
    IF BuildRaises(workout_data) \/ ~append_ok
    THEN [success |-> FALSE, rows |-> rows, warning |-> FALSE]
    ELSE [success |-> check_ok,
          rows |-> AppendRows(rows, RowsToAdd(workout_data, set_group_id, now)),
          warning |-> ~check_ok]

\* save_workout_log(workout_data, set_group_id) at the instant now: the
\* value it returns, the sheet it leaves, and whether it logged the warning
\* of the read after the append.  append_ok is whether the append_rows
\* request went through, check_ok whether the get_all_values after it did;
\* an exception of the loop or of append_rows ends in the except clause,
\* which returns False, and one of the later read is caught on its own
save_workout_log(rows, workout_data, set_group_id, now, append_ok, check_ok) ==
    IF BuildRaises(workout_data) \/ ~append_ok
    THEN [success |-> FALSE, rows |-> rows, warning |-> FALSE]
    ELSE [success |-> TRUE,
          rows |-> AppendRows(rows, RowsToAdd(workout_data, set_group_id, now)),
          warning |-> ~check_ok]

-----------------------------------------------------------------------------
(* Inputs *)

Squat == <<"Squat">>

Bench == <<"Bench">>

ExerciseNames == {Squat, Bench}

WorkoutSet(e, w, r, s) == [exercise |-> e, weight |-> w, reps |-> r, rest |-> s]

\* payloads of the WebApp: a single set, two sets of one exercise, a
\* superset of two exercises
Payloads ==
    { <<WorkoutSet(Squat, 1000, 5, 90)>>,
      <<WorkoutSet(Bench, 825, 8, 45)>>,
      <<WorkoutSet(Squat, 1000, 5, 90), WorkoutSet(Squat, 1025, 3, 120)>>,
      <<WorkoutSet(Squat, 1000, 5, 90), WorkoutSet(Bench, 600, 10, 45)>> }

\* rows entered before the bot wrote to the sheet, in the date formats
\* parse_date names, with hand-made group ids
LegacyDates ==
    { <<"2", "3", ".", "1", "1", ".", "2", "0", "2", "5", ",", " ", "1", "5", ":", "5", "4">>,
      <<"2", "3", ".", "1", "1", ".", "2", "0", "2", "5">>,
      <<"0", "1", ".", "1", "2", ".", "2", "0", "2", "5">> }

LegacyGroups == { <<"A">>, <<"B">> }

LegacyRows ==
    { [Date |-> d, Exercise |-> Squat, Weight |-> <<"8", "0">>, Reps |-> <<"5">>,
       Rest |-> <<"9", "0">>, Set_Group_ID |-> g] : d \in LegacyDates, g \in LegacyGroups }

RECURSIVE SeqsUpTo(_, _)
SeqsUpTo(S, n) ==
    IF n = 0 THEN {<<>>}
    ELSE LET shorter == SeqsUpTo(S, n - 1)
         IN  shorter \cup {Append(q, x) : q \in shorter, x \in S}

\* payloads with an item that lacks the key "weight"
BrokenPayloads ==
    { <<[exercise |-> Squat, reps |-> 5, rest |-> 90]>>,
      <<WorkoutSet(Squat, 1000, 5, 90), [exercise |-> Bench, reps |-> 8, rest |-> 45]>> }

\* JSON bodies sent by the WebApp, by POST or through tg.sendData: with
\* and without a user_id, with an empty payload, with no payload, and of
\* another type
PostBodies ==
    { [type |-> "workout_data", payload |-> p] :
          p \in Payloads \cup BrokenPayloads \cup {<<>>} }
        \cup { [type |-> "workout_data", payload |-> p, user_id |-> <<"42">>] :
                  p \in Payloads }
        \cup { [type |-> "workout_data"],
               [type |-> "ping", payload |-> <<WorkoutSet(Squat, 1000, 5, 90)>>] }

\* the 'limit' query parameter of /api/exercise-history; "10" is also what
\* request.query.get("limit", "10") yields when the parameter is absent
LimitParams == { <<"-", "1">>, <<"0">>, <<"1">>, <<"2">>, <<"1", "0">> }

\* header rows: the standard one, and the ones in which one of the
\* columns carries another name, so that the name of the standard one is
\* absent from the header
Headers ==
    {StandardHeader}
        \cup {[StandardHeader EXCEPT ![c] = "Other"] :
                  c \in {"Date", "Exercise", "Weight", "Reps"}}

\* texts a Weight, a Reps and a Rest cell may hold: numbers with and
\* without a sign or a decimal comma, an empty cell, a word, the word inf
\* that float() reads as infinity, and rests with a unit marker ("2 min",
\* "2 Min", "90 sec")
WeightCells == { <<"8", "0">>, <<"8", "2", ",", "5">>, <<"-", "5">>, <<>>, <<"x">> }

RepsCells == { <<"5">>, <<"-", "3">>, <<>>, <<"i", "n", "f">> }

RestCells ==
    { <<"9", "0">>, <<"4", "5">>, <<"5", "9">>, <<"6", "0">>, <<"1", ",", "5">>,
      <<"-", "3", "0">>, <<>>,
      <<"2", " ", "min">>, <<"2", " ", "Min">>, <<"9", "0", " ", "sec">>, <<"x">>,
      <<"i", "n", "f">> }

\* a row of Squat with any of these cells
CellRows ==
    { [Date |-> <<"2", "3", ".", "1", "1", ".", "2", "0", "2", "5", ",", " ", "1", "5", ":", "5", "4">>,
       Exercise |-> Squat, Weight |-> w, Reps |-> r, Rest |-> s,
       Set_Group_ID |-> <<"A">>] : w \in WeightCells, r \in RepsCells, s \in RestCells }

\* a sheet with a seventh column, Order, filled by hand
OrderHeader == [c \in Columns \cup {"Order"} |-> c]

\* the rows of one session of Squat, of three sets numbered in the Order
\* column, in any row order, dated in the day-first form or in the form
\* save_workout_log writes
OrderLogs ==
    { [k \in 1..3 |->
          [Date |-> d, Exercise |-> Squat, Weight |-> <<"8", "0">>, Reps |-> <<"5">>,
           Rest |-> <<"9", "0">>, Set_Group_ID |-> <<"A">>,
           Order |-> <<DigitChar(o[k])>>]] :
        o \in {p \in [1..3 -> 1..3] : {p[k] : k \in 1..3} = 1..3},
        d \in { <<"2", "3", ".", "1", "1", ".", "2", "0", "2", "5", ",", " ", "1", "5", ":", "5", "4">>,
                <<"2", "0", "2", "5", ".", "1", "2", ".", "3", "1", ",", " ", "1", "9", ":", "1", "7">> } }

-----------------------------------------------------------------------------
(* The state machine *)

\* the stored data of a chat with no conversation: dict.get returns None
\* for both keys
NoData == [exercise_name |-> None, muscle_group |-> None]

\* the chat when the bot starts: MemoryStorage is empty, no keyboard of the
\* bot is on screen
NoConversation ==
    /\ state = [state |-> "None", data |-> NoData]
    /\ chat = [keyboards |-> <<>>, calls |-> 0,
               last |-> [handler |-> "none", from |-> "None", called |-> FALSE]]
    /\ exercises_sheet = <<>>

Init ==
    /\ header = StandardHeader
    /\ log \in SeqsUpTo(LegacyRows, MaxLegacy)
    /\ journal = <<>>
    /\ resp = [op |-> "none"]
    /\ NoConversation

\* the wall clock does not run backwards: the instant of the latest save
LastInstant == IF journal = <<>> THEN 1 ELSE journal[Len(journal)].at

\* the journal after a call of save_workout_log
Logged(saved, set_group_id, payload, t) ==
    IF saved.success
    THEN Append(journal,
             [set_group_id |-> set_group_id, payload |-> payload, at |-> t,
              first |-> Len(log) + 1, last |-> Len(log) + Len(payload)])
    ELSE journal

\* the bounds of the model on a save: saves handled, rows in the sheet, and
\* a wall clock that does not run backwards
SaveInBounds(payload, t) ==
    /\ Len(journal) < MaxSaves
    /\ Len(log) + Len(payload) <= MaxRows
    /\ t >= LastInstant

\* data.get("type") != "workout_data"
WrongType(data) == Get(data, "type", None) # "workout_data"

\* the test "not payload" taking every payload for a non-empty one
NoPayloadNever(data) == FALSE

\* payload = data.get("payload", []); not payload
NoPayload(data) == Get(data, "payload", <<>>) = <<>>

\* what became of the confirmation of handle_webapp_post: no message when
\* the save failed or the body has no user_id, else bot.send_message went
\* through (send_ok) or raised
Notified(data, success, send_ok) ==
    IF ~success \/ Get(data, "user_id", <<>>) = <<>> THEN "none"
    ELSE IF send_ok THEN "sent" ELSE "failed"

\* the JSON response of handle_webapp_post turned into an error when the
\* confirmation could not be sent
PostResponseNeedsMessage(success, notified) ==
    IF success /\ notified # "failed"
    THEN [status |-> "success", code |-> 200]
    ELSE [status |-> "error", code |-> 500]

\* the JSON response of handle_webapp_post after save_workout_log
PostResponse(success, notified) ==
    IF success
    THEN [status |-> "success", code |-> 200]
    ELSE [status |-> "error", code |-> 500]

\* handle_webapp_data: a Telegram message carrying web_app_data (the JSON
\* text of data), at the instant t; the handler answers with a message,
\* and when message.answer raises (~send_ok) the except clause answers
\* with the error text
HandleWebappData(data, t, append_ok, check_ok, send_ok) ==
    LET payload == Get(data, "payload", <<>>)
        set_group_id == Uuid4(Len(journal) + 1)
        saved == save_workout_log(log, payload, set_group_id, Instant(t),
                                  append_ok, check_ok)
    IN  /\ resp.op = "none"
        /\ UNCHANGED <<header, state, chat, exercises_sheet>>
        /\ IF WrongType(data)
           THEN /\ resp' = [op |-> "webapp_data",
                            answer |-> IF send_ok THEN "bad format" ELSE "error",
                            data |-> data, before |-> log]
                /\ UNCHANGED <<log, journal>>
           ELSE IF NoPayload(data)
           THEN /\ resp' = [op |-> "webapp_data",
                            answer |-> IF send_ok THEN "no data" ELSE "error",
                            data |-> data, before |-> log]
                /\ UNCHANGED <<log, journal>>
           ELSE /\ SaveInBounds(payload, t)
                /\ log' = saved.rows
                /\ journal' = Logged(saved, set_group_id, payload, t)
                /\ resp' = [op |-> "webapp_data",
                            answer |-> IF ~send_ok THEN "error"
                                       ELSE IF saved.success THEN "saved"
                                       ELSE "save error",
                            success |-> saved.success,
                            append_ok |-> append_ok, check_ok |-> check_ok,
                            data |-> data, before |-> log, payload |-> payload]

\* handle_webapp_post: POST /api/webapp-data with the JSON body data, at
\* the instant t; append_ok is whether the sheet accepts the append,
\* check_ok whether it answers the read that follows, send_ok whether
\* bot.send_message goes through
HandleWebappPost(data, t, append_ok, check_ok, send_ok) ==
    LET payload == Get(data, "payload", <<>>)
        set_group_id == Uuid4(Len(journal) + 1)
        saved == save_workout_log(log, payload, set_group_id, Instant(t),
                                  append_ok, check_ok)
        notified == Notified(data, saved.success, send_ok)
        response == PostResponse(saved.success, notified)
    IN  /\ resp.op = "none"
        /\ UNCHANGED <<header, state, chat, exercises_sheet>>
        /\ IF WrongType(data)
           THEN /\ resp' = [op |-> "post", status |-> "error", code |-> 400,
                            data |-> data, before |-> log]
                /\ UNCHANGED <<log, journal>>
           ELSE IF NoPayload(data)
           THEN /\ resp' = [op |-> "post", status |-> "error", code |-> 400,
                            data |-> data, before |-> log]
                /\ UNCHANGED <<log, journal>>
           ELSE /\ SaveInBounds(payload, t)
                /\ log' = saved.rows
                /\ journal' = Logged(saved, set_group_id, payload, t)
                /\ resp' = [op |-> "post",
                            status |-> response.status, code |-> response.code,
                            notified |-> notified,
                            success |-> saved.success,
                            append_ok |-> append_ok, check_ok |-> check_ok,
                            data |-> data, before |-> log, payload |-> payload]

\* a call of get_last_workout; read_ok is whether the sheet answers the
\* read
GetLastWorkout(exercise_name, read_ok) ==
    /\ resp.op = "none"
    /\ resp' = [op |-> "last", exercise |-> exercise_name, read |-> read_ok,
                result |-> get_last_workout(get_all_records(header, log),
                                            exercise_name, read_ok)]
    /\ UNCHANGED <<header, log, journal, state, chat, exercises_sheet>>

\* api_exercise_history: GET /api/exercise-history?exercise=..&limit=..;
\* read_ok is whether the sheet answers the read
ApiExerciseHistory(exercise_name, limit_param, read_ok) ==
    LET limit == PyInt(limit_param)
    IN  /\ resp.op = "none"
        /\ resp' =
              IF exercise_name = <<>> THEN [op |-> "history", status |-> "error"]
              ELSE IF ~limit.ok THEN [op |-> "history", status |-> "error"]
              ELSE [op |-> "history", status |-> "success",
                    exercise |-> exercise_name, limit |-> limit.v, read |-> read_ok,
                    result |-> get_exercise_history(header, log, exercise_name,
                                                    limit.v, read_ok)]
        /\ UNCHANGED <<header, log, journal, state, chat, exercises_sheet>>

\* the operation returns: its result goes to the caller and the event loop
\* takes the next request (the handlers run on one asyncio loop and the
\* manager's methods never await, so operations run one at a time)
Return ==
    /\ resp.op # "none"
    /\ resp' = [op |-> "none"]
    /\ UNCHANGED <<header, log, journal, state, chat, exercises_sheet>>

Next ==
    \/ \E data \in PostBodies, t \in 1..MaxClock,
             append_ok, check_ok, send_ok \in BOOLEAN :
           HandleWebappData(data, t, append_ok, check_ok, send_ok)
    \/ \E data \in PostBodies, t \in 1..MaxClock,
             append_ok, check_ok, send_ok \in BOOLEAN :
           HandleWebappPost(data, t, append_ok, check_ok, send_ok)
    \/ \E e \in ExerciseNames, read_ok \in BOOLEAN : GetLastWorkout(e, read_ok)
    \/ \E e \in ExerciseNames, l \in LimitParams, read_ok \in BOOLEAN :
           ApiExerciseHistory(e, l, read_ok)
    \/ Return

Spec == Init /\ [][Next]_vars

\* The queries over a sheet of one row, for every header row and every cell
\* text of the inputs

InitSheet ==
    /\ header \in Headers
    /\ log \in {<<r>> : r \in CellRows}
    /\ journal = <<>>
    /\ resp = [op |-> "none"]
    /\ NoConversation

NextSheet ==
    \/ \E e \in ExerciseNames, read_ok \in BOOLEAN : GetLastWorkout(e, read_ok)
    \/ \E e \in ExerciseNames, l \in LimitParams, read_ok \in BOOLEAN :
           ApiExerciseHistory(e, l, read_ok)
    \/ Return

SpecSheet == InitSheet /\ [][NextSheet]_vars

\* The queries over a sheet whose rows carry an Order cell

InitOrder ==
    /\ header = OrderHeader
    /\ log \in OrderLogs
    /\ journal = <<>>
    /\ resp = [op |-> "none"]
    /\ NoConversation

SpecOrder == InitOrder /\ [][NextSheet]_vars

-----------------------------------------------------------------------------
(* The add-exercise conversation *)

\* AddExerciseStates: the states of the conversation (a chat outside it
\* has the state None)
AddExerciseStates == {"waiting_for_name", "waiting_for_group", "waiting_for_photo"}

\* message.text of the texts the user types: a name, a group, blanks
Texts == { <<"Plank">>, <<" ">>, <<" ", "Core", " ">> }

\* message.photo[-1].file_id
PhotoIds == { <<"F1">> }

\* the EXERCISES sheet when the bot connects: empty, or with one exercise
Catalogues == { <<>>, << <<Squat, <<"Legs">>, <<>>>> >> }

\* the text of a cell append_row writes for a value: None leaves it empty
CellOf(v) == IF v = None THEN <<>> ELSE v

\* get_muscle_groups: the distinct non-empty stripped texts of column B,
\* the empty list when the read fails
get_muscle_groups(sheet, read_ok) ==
    IF ~read_ok THEN {}
    ELSE {Strip(sheet[i][2]) : i \in 1..Len(sheet)} \ {<<>>}

\* add_exercise: append_row([exercise_name, muscle_group, photo_file_id]);
\* False, and nothing written, when the append raises
add_exercise(sheet, exercise_name, muscle_group, photo_file_id, append_ok) ==
    IF append_ok
    THEN [success |-> TRUE,
          sheet |-> Append(sheet, <<CellOf(exercise_name), CellOf(muscle_group),
                                    photo_file_id>>)]
    ELSE [success |-> FALSE, sheet |-> sheet]

\* the callback data of the buttons of the keyboard process_exercise_name
\* builds for the groups
Keyboard(muscle_groups) ==
    {<<"select_group_">> \o g : g \in muscle_groups} \cup {<<"new_group">>}

\* the keyboards on screen after message k lost its keyboard (edit_text
\* with no reply_markup)
WithoutKeyboard(k) ==
    [j \in 1..(Len(chat.keyboards) - 1) |->
        IF j < k THEN chat.keyboards[j] ELSE chat.keyboards[j + 1]] \o <<>>

\* state.update_data(key=value)
update_data(data, key, value) == [data EXCEPT ![key] = value]

\* the trace of a handler: calls counts the add_exercise calls since the
\* last set_state
Traced(handler, called, set) ==
    [keyboards |-> chat.keyboards,
     calls |-> IF set THEN 0 ELSE IF called THEN chat.calls + 1 ELSE chat.calls,
     last |-> [handler |-> handler, from |-> state.state, called |-> called]]

\* cmd_add_exercise: the command /add_exercise, in any state; send_ok is
\* whether message.answer goes through (the handler stops where it raises)
CmdAddExercise(send_ok) ==
    /\ state' = IF send_ok THEN [state EXCEPT !.state = "waiting_for_name"]
                ELSE state
    /\ chat' = Traced("cmd_add_exercise", FALSE, send_ok)
    /\ UNCHANGED <<header, log, journal, resp, exercises_sheet>>

\* process_exercise_name: a text message while waiting_for_name
ProcessExerciseName(text, read_ok, send_ok) ==
    LET exercise_name == Strip(text)
        muscle_groups == get_muscle_groups(exercises_sheet, read_ok)
        named == update_data(state.data, "exercise_name", exercise_name)
    IN  /\ state.state = "waiting_for_name"
        /\ IF exercise_name = <<>>
           THEN /\ state' = state
                /\ chat' = Traced("process_exercise_name", FALSE, FALSE)
           ELSE IF muscle_groups # {}
           THEN /\ send_ok => Len(chat.keyboards) < MaxKeyboards
                /\ state' = [state EXCEPT !.data = named]
                /\ chat' = [Traced("process_exercise_name", FALSE, FALSE)
                               EXCEPT !.keyboards =
                                   IF send_ok THEN Append(@, Keyboard(muscle_groups))
                                   ELSE @]
           ELSE /\ state' = [state |-> IF send_ok THEN "waiting_for_group"
                                       ELSE state.state,
                             data |-> named]
                /\ chat' = Traced("process_exercise_name", FALSE, send_ok)
        /\ UNCHANGED <<header, log, journal, resp, exercises_sheet>>

\* process_selected_group: a press of a select_group_ button of the
\* keyboard of message k, in any state; send_ok is whether edit_text goes
\* through
ProcessSelectedGroup(k, callback_data, send_ok) ==
    LET muscle_group == Remove(callback_data, "select_group_")
        grouped == update_data(state.data, "muscle_group", muscle_group)
    IN  /\ k \in 1..Len(chat.keyboards)
        /\ callback_data \in chat.keyboards[k]
        /\ callback_data[1] = "select_group_"
        /\ state' = [state |-> IF send_ok THEN "waiting_for_photo" ELSE state.state,
                     data |-> grouped]
        /\ chat' = [Traced("process_selected_group", FALSE, send_ok)
                       EXCEPT !.keyboards = IF send_ok THEN WithoutKeyboard(k) ELSE @]
        /\ UNCHANGED <<header, log, journal, resp, exercises_sheet>>

\* process_new_group: a press of the new_group button of the keyboard of
\* message k, in any state
ProcessNewGroup(k, send_ok) ==
    /\ k \in 1..Len(chat.keyboards)
    /\ <<"new_group">> \in chat.keyboards[k]
    /\ state' = IF send_ok THEN [state EXCEPT !.state = "waiting_for_group"]
                ELSE state
    /\ chat' = [Traced("process_new_group", FALSE, send_ok)
                   EXCEPT !.keyboards = IF send_ok THEN WithoutKeyboard(k) ELSE @]
    /\ UNCHANGED <<header, log, journal, resp, exercises_sheet>>

\* process_group_name: a text message while waiting_for_group
ProcessGroupName(text, send_ok) ==
    LET muscle_group == Strip(text)
        grouped == update_data(state.data, "muscle_group", muscle_group)
    IN  /\ state.state = "waiting_for_group"
        /\ IF muscle_group = <<>>
           THEN /\ state' = state
                /\ chat' = Traced("process_group_name", FALSE, FALSE)
           ELSE /\ state' = [state |-> IF send_ok THEN "waiting_for_photo"
                                       ELSE state.state,
                             data |-> grouped]
                /\ chat' = Traced("process_group_name", FALSE, send_ok)
        /\ UNCHANGED <<header, log, journal, resp, exercises_sheet>>

\* process_photo: a photo while waiting_for_photo: add_exercise, the
\* answer, then state.clear(), which is not reached when message.answer
\* raises
ProcessPhoto(photo_file_id, append_ok, send_ok) ==
    LET added == add_exercise(exercises_sheet, state.data.exercise_name,
                              state.data.muscle_group, photo_file_id, append_ok)
    IN  /\ state.state = "waiting_for_photo"
        /\ chat.calls < MaxCalls
        /\ Len(added.sheet) <= MaxExercises
        /\ exercises_sheet' = added.sheet
        /\ state' = IF send_ok THEN [state |-> "None", data |-> NoData] ELSE state
        /\ chat' = Traced("process_photo", TRUE, FALSE)
        /\ UNCHANGED <<header, log, journal, resp>>

\* skip_photo: the command /skip while waiting_for_photo: add_exercise
\* with an empty photo, the answer, then state.clear()
SkipPhoto(append_ok, send_ok) ==
    LET added == add_exercise(exercises_sheet, state.data.exercise_name,
                              state.data.muscle_group, <<>>, append_ok)
    IN  /\ state.state = "waiting_for_photo"
        /\ chat.calls < MaxCalls
        /\ Len(added.sheet) <= MaxExercises
        /\ exercises_sheet' = added.sheet
        /\ state' = IF send_ok THEN [state |-> "None", data |-> NoData] ELSE state
        /\ chat' = Traced("skip_photo", TRUE, FALSE)
        /\ UNCHANGED <<header, log, journal, resp>>

InitChat ==
    /\ header = StandardHeader
    /\ log = <<>>
    /\ journal = <<>>
    /\ resp = [op |-> "none"]
    /\ state = [state |-> "None", data |-> NoData]
    /\ chat = [keyboards |-> <<>>, calls |-> 0,
               last |-> [handler |-> "none", from |-> "None", called |-> FALSE]]
    /\ exercises_sheet \in Catalogues

NextChat ==
    \/ \E send_ok \in BOOLEAN : CmdAddExercise(send_ok)
    \/ \E text \in Texts, read_ok, send_ok \in BOOLEAN :
           ProcessExerciseName(text, read_ok, send_ok)
    \/ \E k \in 1..MaxKeyboards, g \in Texts \cup {<<"Legs">>}, send_ok \in BOOLEAN :
           ProcessSelectedGroup(k, <<"select_group_">> \o g, send_ok)
    \/ \E k \in 1..MaxKeyboards, send_ok \in BOOLEAN : ProcessNewGroup(k, send_ok)
    \/ \E text \in Texts, send_ok \in BOOLEAN : ProcessGroupName(text, send_ok)
    \/ \E photo_file_id \in PhotoIds, append_ok, send_ok \in BOOLEAN :
           ProcessPhoto(photo_file_id, append_ok, send_ok)
    \/ \E append_ok, send_ok \in BOOLEAN : SkipPhoto(append_ok, send_ok)

SpecChat == InitChat /\ [][NextChat]_vars

-----------------------------------------------------------------------------
(* Vocabulary of the properties *)

\* the calendar day a Date cell denotes, whatever supported form it is
\* written in ('YYYY.MM.DD', 'DD.MM.YYYY', 'YYYY-MM-DD', with or without a
\* time after a comma or a space); NoDate for any other text
CalendarDate(cell) ==
    LET day == SplitFirst(SplitFirst(Strip(cell), ","), " ")
        dot == Split(day, ".")
        dash == Split(day, "-")
    IN  IF Len(dot) = 3 /\ IsYearField(dot[1])
        THEN (IF IsDayOrMonthField(dot[2]) /\ IsDayOrMonthField(dot[3])
              THEN MkDate(DigitsVal(dot[1]), DigitsVal(dot[2]), DigitsVal(dot[3]))
              ELSE NoDate)
        ELSE IF Len(dot) = 3 THEN StrptimeDMY(day)
        ELSE IF Len(dash) = 3 THEN StrptimeYMD(day)
        ELSE NoDate

\* positions of the rows of an exercise
RowsOf(exercise_name) ==
    {i \in 1..Len(log) : Strip(log[i].Exercise) = Strip(exercise_name)}

Range(s) == {s[k] : k \in 1..Len(s)}

\* the sheet holds nothing but what save_workout_log wrote
OnlySavedRows == journal # <<>> /\ journal[1].first = 1

\* get_last_workout has answered from rows it read
IsLast == resp.op = "last" /\ resp.read

\* get_exercise_history has answered from rows it read
IsHistory == resp.op = "history" /\ resp.status = "success" /\ resp.read

\* the latest save, when it logged one set and the sheet held no row of
\* that exercise before
SingleSetSaved ==
    /\ journal # <<>>
    /\ LET j == journal[Len(journal)]
       IN  /\ Len(j.payload) = 1
           /\ \A i \in 1..(j.first - 1) :
                  Strip(log[i].Exercise) # Strip(j.payload[1].exercise)

-----------------------------------------------------------------------------
(* Properties *)

\* C1: after saves that logged an exercise on different calendar dates,
\* get_last_workout returns sets only from rows of the latest calendar
\* date among the rows of that exercise
C1_LastWorkoutIsLatestDate ==
    (IsLast /\ OnlySavedRows) =>
        \A k \in 1..Len(resp.result.idx) : \A i \in RowsOf(resp.exercise) :
            CalendarDate(log[i].Date) <= CalendarDate(log[resp.result.idx[k]].Date)

\* C2: the sets of a session come back in the order they were performed:
\* when get_last_workout returns the rows one save appended for the
\* exercise, it returns them in their row order
C2_PerformanceOrder ==
    IsLast =>
        \A n \in 1..Len(journal) :
            LET mine == (journal[n].first .. journal[n].last) \cap RowsOf(resp.exercise)
            IN  Range(resp.result.idx) = mine =>
                    \A k, l \in 1..Len(resp.result.idx) :
                        k < l => resp.result.idx[k] < resp.result.idx[l]

\* C3 as stated: after a single-set save of (E, w, r, s) on a sheet with
\* no earlier row of E, get_last_workout(E) returns one set with weight w,
\* reps r and the rest in minutes, s / 60
C3_RoundTripMinutes ==
    (IsLast /\ SingleSetSaved
        /\ resp.exercise = journal[Len(journal)].payload[1].exercise) =>
        LET sent == journal[Len(journal)].payload[1]
            got == resp.result.sets
        IN  /\ Len(got) = 1
            /\ got[1].weight = sent.weight
            /\ got[1].reps = sent.reps
            /\ 60 * got[1].rest = sent.rest

\* C3 as amended: the same round trip returns the rest as it was sent,
\* in seconds
C3_RoundTripSeconds ==
    (IsLast /\ SingleSetSaved
        /\ resp.exercise = journal[Len(journal)].payload[1].exercise) =>
        LET sent == journal[Len(journal)].payload[1]
            got == resp.result.sets
        IN  /\ Len(got) = 1
            /\ got[1].weight = sent.weight
            /\ got[1].reps = sent.reps
            /\ got[1].rest = sent.rest

\* the round trip of C3 has happened, for a weight with a fractional part
C3_Witness ==
    /\ IsLast /\ SingleSetSaved
    /\ resp.exercise = journal[Len(journal)].payload[1].exercise
    /\ journal[Len(journal)].payload[1].weight % 10 # 0
    /\ Len(resp.result.sets) = 1

\* the scenario of C4: an older save with sets of X only, a save of a
\* later date with X and another exercise, and history(X, limit=1)
C4_Scenario ==
    /\ IsHistory /\ resp.limit = 1
    /\ OnlySavedRows /\ Len(journal) = 2
    /\ LET old == journal[1]
           new == journal[2]
       IN  /\ \A k \in 1..Len(old.payload) : old.payload[k].exercise = resp.exercise
           /\ \E k \in 1..Len(new.payload) : new.payload[k].exercise = resp.exercise
           /\ \E k \in 1..Len(new.payload) : new.payload[k].exercise # resp.exercise
           /\ CalendarDate(log[old.first].Date) < CalendarDate(log[new.first].Date)

\* C4 as stated: superset expansion, history(X, limit=1) returns exactly
\* the rows of the later session, the row of X and the row of the other
\* exercise
C4_SupersetExpansion ==
    C4_Scenario =>
        Range(resp.result.idx) = journal[2].first .. journal[2].last

\* C4 as amended: get_exercise_history returns rows of the requested
\* exercise only; in the scenario it returns exactly one row, the row of X
\* of the later session
C4_OnlyTheExercise ==
    /\ IsHistory =>
           \A k \in 1..Len(resp.result.idx) : resp.result.idx[k] \in RowsOf(resp.exercise)
    /\ C4_Scenario =>
           /\ Len(resp.result.idx) = 1
           /\ resp.result.idx[1] \in (journal[2].first .. journal[2].last)

\* the scenario of C4 has been queried
C4_Witness == C4_Scenario /\ Len(resp.result.data) = 1

\* the record get_last_workout takes for the latest: ex_logs[0] after the
\* descending sort
LatestRecord == ExLogsSorted(get_all_records(header, log), resp.exercise)[1]

Group(i) == Strip(log[i].Set_Group_ID)

\* C5: every set get_last_workout returns comes from a row with the
\* date_key and the Set_Group_ID of the latest record, so a row with the
\* sentinel date is never grouped with a row whose date is valid
C5_SessionIsolation ==
    (IsLast /\ resp.result.idx # <<>>) =>
        \A k \in 1..Len(resp.result.idx) :
            /\ parse_date(log[resp.result.idx[k]].Date) = parse_date(log[LatestRecord].Date)
            /\ Group(resp.result.idx[k]) = Group(LatestRecord)

\* C6: get_last_workout omits no row of the exercise that has the date_key
\* and the Set_Group_ID of the latest record (stated for a latest record
\* whose date parses), wherever the row sits in the sheet
C6_NoRecordOmitted ==
    (IsLast /\ RowsOf(resp.exercise) # {}) =>
        (parse_date(log[LatestRecord].Date) # DateMin =>
            \A i \in RowsOf(resp.exercise) :
                (/\ parse_date(log[i].Date) = parse_date(log[LatestRecord].Date)
                 /\ Group(i) = Group(LatestRecord))
                    => i \in Range(resp.result.idx))

Min(a, b) == IF a < b THEN a ELSE b

SessionsOf(S) == {Group(i) : i \in S}

\* C7 as stated: the limit counts sessions; the result covers
\* min(limit, sessions of X) session ids and no session is cut (stated
\* for a sheet that holds only rows save_workout_log wrote)
C7_LimitCountsSessions ==
    (IsHistory /\ OnlySavedRows /\ resp.limit >= 0) =>
        /\ Cardinality(SessionsOf(Range(resp.result.idx)))
               = Min(resp.limit, Cardinality(SessionsOf(RowsOf(resp.exercise))))
        /\ \A i \in RowsOf(resp.exercise) :
               Group(i) \in SessionsOf(Range(resp.result.idx))
                   => i \in Range(resp.result.idx)

\* C7 as amended: the limit counts rows; for limit >= 0 the result holds
\* min(limit, rows of X) records, each a different row of X
C7_LimitCountsRows ==
    (IsHistory /\ resp.limit >= 0) =>
        /\ Len(resp.result.data) = Min(resp.limit, Cardinality(RowsOf(resp.exercise)))
        /\ Cardinality(Range(resp.result.idx)) = Len(resp.result.idx)
        /\ Range(resp.result.idx) \subseteq RowsOf(resp.exercise)

\* limit = 1 has cut a session of two saved sets of the exercise
C7_Witness ==
    /\ IsHistory /\ resp.limit = 1 /\ Len(resp.result.idx) = 1
    /\ \E n \in 1..Len(journal) :
           /\ resp.result.idx[1] \in (journal[n].first .. journal[n].last)
           /\ \E i \in (journal[n].first .. journal[n].last) :
                  i \in RowsOf(resp.exercise) /\ i # resp.result.idx[1]

\* C8: get_exercise_history returns the rows most recent calendar date
\* first, and the rows a limit leaves out are no more recent than the rows
\* it keeps, in every supported date format
C8_ReverseChronological ==
    (IsHistory /\ resp.limit >= 0) =>
        /\ \A k, l \in 1..Len(resp.result.idx) :
               k < l => CalendarDate(log[resp.result.idx[k]].Date)
                            >= CalendarDate(log[resp.result.idx[l]].Date)
        /\ \A i \in RowsOf(resp.exercise) \ Range(resp.result.idx) :
               \A k \in 1..Len(resp.result.idx) :
                   CalendarDate(log[i].Date) <= CalendarDate(log[resp.result.idx[k]].Date)

\* rows of two sessions of one timestamp interleave in the sheet
Interleaved(exercise_name) ==
    \E i, j, k \in RowsOf(exercise_name) :
        /\ i < j /\ j < k
        /\ log[i].Date = log[j].Date /\ log[j].Date = log[k].Date
        /\ Group(i) = Group(k) /\ Group(i) # Group(j)

C10_NonPositiveLimitEmpty ==
    (IsHistory /\ OnlySavedRows /\ resp.limit <= 0) => resp.result.data = <<>>

\* a query has answered, whether or not it could read the sheet
Answered ==
    \/ resp.op = "last"
    \/ resp.op = "history" /\ resp.status = "success"

\* the list the query returned
Returned == IF resp.op = "last" THEN resp.result.sets ELSE resp.result.data

\* C11: when no row of the sheet has the requested exercise in its
\* Exercise cell, get_last_workout and get_exercise_history both return an
\* empty list, whatever other rows the sheet holds
C11_AbsentExerciseEmpty ==
    (Answered /\ RowsOf(resp.exercise) = {}) => Returned = <<>>

\* get_last_workout has read a sheet with rows, none of the exercise asked
C11_Witness ==
    /\ IsLast /\ Len(log) >= 2 /\ RowsOf(resp.exercise) = {}
    /\ resp.result.sets = <<>>

\* the columns the reconstruction requires
RequiredColumns == {"Date", "Exercise", "Weight", "Reps"}

\* C12: when the header row lacks one of the required columns (Date,
\* Exercise, Weight, Reps), get_last_workout and get_exercise_history both
\* return an empty list, no record with defaulted fields
C12_MissingColumnFailsClosed ==
    (Answered /\ \E c \in RequiredColumns : ~HasColumn(header, c)) => Returned = <<>>

\* a save handler has called save_workout_log; resp holds what it was
\* called with (payload, the sheet before) and what the sheet did
\* (append_ok, check_ok), beside the value returned (success)
Saved == resp.op \in {"post", "webapp_data"} /\ "success" \in DOMAIN resp

\* C13: save_workout_log returns True exactly when the rows were built and
\* append_rows went through; when it returns False the sheet is as it was,
\* and a failure of the read that follows the append does not make the
\* result False
C13_SaveResult ==
    Saved =>
        /\ resp.success <=> (~BuildRaises(resp.payload) /\ resp.append_ok)
        /\ ~resp.success => log = resp.before
        /\ resp.success => Len(log) = Len(resp.before) + Len(resp.payload)

\* a save returned True although the read after its append failed
C13_Witness ==
    /\ Saved /\ resp.success /\ ~resp.check_ok
    /\ Len(log) = Len(resp.before) + Len(resp.payload)

\* the cells of a row are those of a set of a payload
RowOfSet(row, set) ==
    /\ row.Exercise = set.exercise
    /\ row.Weight = CellText(set.weight)
    /\ row.Reps = CellText(10 * set.reps)
    /\ row.Rest = CellText(10 * set.rest)

\* C14: the sheet is append-only: a step leaves every row where and as it
\* was; a save that returns True adds one row per set of its payload, in
\* payload order, below the rows there were; any other step (a failed
\* save, get_last_workout, get_exercise_history) leaves the sheet as it is
C14_AppendOnly ==
    [][ /\ Len(log') >= Len(log)
        /\ SubSeq(log', 1, Len(log)) = log
        /\ IF resp'.op \in {"post", "webapp_data"} /\ "success" \in DOMAIN resp'
              /\ resp'.success
           THEN /\ Len(log') = Len(log) + Len(resp'.payload)
                /\ \A k \in 1..Len(resp'.payload) :
                       RowOfSet(log'[Len(log) + k], resp'.payload[k])
           ELSE log' = log ]_vars

\* a save of two sets has added its rows to a sheet that held rows
C14_Witness ==
    /\ Saved /\ resp.success
    /\ resp.before # <<>> /\ Len(resp.payload) = 2
    /\ log = resp.before \o SubSeq(log, Len(resp.before) + 1, Len(log))
    /\ \A k \in 1..2 : RowOfSet(log[Len(resp.before) + k], resp.payload[k])

\* the rows the n-th successful save wrote
RowsOfSave(n) == journal[n].first .. journal[n].last

\* C15: all the rows one save_workout_log call wrote carry the same
\* timestamp text, the one of the instant of the call
C15_SharedTimestamp ==
    \A n \in 1..Len(journal) : \A i \in RowsOfSave(n) :
        log[i].Date = Timestamp(Instant(journal[n].at))

\* a save has written two rows
C15_Witness ==
    /\ Saved /\ resp.success /\ Len(resp.payload) = 2
    /\ log[Len(log)].Date = log[Len(log) - 1].Date

\* C16: every row written through the save handlers carries a non-empty
\* Set_Group_ID, the rows of one save request carry the same one, and
\* the rows of two different save requests carry different ones
C16_SessionIds ==
    \A n \in 1..Len(journal) : \A i \in RowsOfSave(n) :
        /\ Strip(log[i].Set_Group_ID) # <<>>
        /\ \A j \in RowsOfSave(n) : log[j].Set_Group_ID = log[i].Set_Group_ID
        /\ \A m \in 1..Len(journal) : \A j \in RowsOfSave(m) :
               m # n => log[j].Set_Group_ID # log[i].Set_Group_ID

\* two save requests have written rows, the later one two rows through
\* handle_webapp_data
C16_Witness ==
    /\ Len(journal) = 2
    /\ resp.op = "webapp_data" /\ Saved /\ resp.success /\ Len(resp.payload) = 2
    /\ log[1].Set_Group_ID # log[2].Set_Group_ID

\* C17: when the read of the sheet fails, get_last_workout and
\* get_exercise_history each return an empty list
C17_ReadFailureEmpty ==
    (Answered /\ ~resp.read) => Returned = <<>>

\* get_last_workout has failed to read a sheet that holds rows of the
\* exercise asked
C17_Witness ==
    /\ resp.op = "last" /\ ~resp.read
    /\ RowsOf(resp.exercise) # {}
    /\ resp.result.sets = <<>>

\* C18: every record get_last_workout and get_exercise_history return has
\* weight >= 0, reps >= 0 and rest >= 0, whatever text the Weight, Reps
\* and Rest cells hold
C18_NonNegative ==
    Answered =>
        \A k \in 1..Len(Returned) :
            Returned[k].weight >= 0 /\ Returned[k].reps >= 0 /\ Returned[k].rest >= 0

\* the number (in tenths) a Rest cell holds when it holds a plain number,
\* with a decimal comma or point and no unit marker
PlainRest(cell) == PyFloat(Strip(Replace(cell, ",", ".")))

\* the Rest cell of the row the k-th returned record was read from
RestCellOf(k) == log[resp.result.idx[k]].Rest

\* C19 as stated: for a Rest cell holding a plain number n, the rest the
\* queries return is n / 60 when n > 59 and n itself when n <= 59
C19_RestHeuristic ==
    Answered =>
        \A k \in 1..Len(Returned) :
            PlainRest(RestCellOf(k)).ok =>
                LET n == PlainRest(RestCellOf(k)).v
                IN  IF n > 590 THEN 60 * 10 * Returned[k].rest = n
                    ELSE 10 * Returned[k].rest = n

\* C19 as amended: for a Rest cell holding a plain number n, the rest the
\* queries return is n truncated to an integer, in seconds, whatever its
\* size
C19_RestPlainSeconds ==
    Answered =>
        \A k \in 1..Len(Returned) :
            PlainRest(RestCellOf(k)).ok =>
                Returned[k].rest = Trunc(PlainRest(RestCellOf(k)).v)

\* get_last_workout has returned the rest of a Rest cell that holds 90
C19_Witness ==
    /\ IsLast /\ Len(resp.result.sets) = 1
    /\ RestCellOf(1) = <<"9", "0">>
    /\ resp.result.sets[1].rest = 90

\* C20: parse_date maps every supported textual form of a calendar day
\* ('YYYY.MM.DD', 'DD.MM.YYYY', 'YYYY-MM-DD', with or without a time after
\* a comma) to that calendar day, never to the sentinel datetime.min: the
\* date_key of every row get_last_workout has sorted is the day its Date
\* cell denotes
C20_DateFormsAgree ==
    IsLast =>
        \A i \in RowsOf(resp.exercise) :
            CalendarDate(log[i].Date) # NoDate =>
                /\ parse_date(log[i].Date) = CalendarDate(log[i].Date)
                /\ parse_date(log[i].Date) # DateMin

\* a cell that cannot be converted to a number: empty, not a number, or
\* a number that cannot become an integer
Malformed(cell) ==
    LET f == PyFloat(Strip(Replace(cell, ",", ".")))
    IN  ~f.ok \/ f.inf

\* C21: a Weight, Reps or Rest cell that cannot be converted never empties
\* the result: the query that reads a sheet of one row of the exercise
\* (with a limit of at least 1) returns that row, with 0 for a malformed
\* Weight or Reps
C21_MalformedCellLocal ==
    (Answered /\ resp.read /\ header = StandardHeader /\ Len(log) = 1
        /\ RowsOf(resp.exercise) = {1}
        /\ (resp.op = "history" => resp.limit >= 1)) =>
        /\ Len(Returned) = 1
        /\ Malformed(log[1].Weight) => Returned[1].weight = 0
        /\ Malformed(log[1].Reps) => Returned[1].reps = 0

\* the number in the Order cell of a row
OrderOf(i) == DigitsVal(Strip(log[i].Order))

\* C22: for a session whose rows carry explicit Order values,
\* get_last_workout returns the sets ascending by Order, the set of
\* Order 1 first
C22_OrderedByOrderField ==
    (IsLast /\ HasColumn(header, "Order") /\ resp.result.idx # <<>>) =>
        /\ OrderOf(resp.result.idx[1]) = 1
        /\ \A k, l \in 1..Len(resp.result.idx) :
               k < l => OrderOf(resp.result.idx[k]) < OrderOf(resp.result.idx[l])

\* C23: when the sheet holds a row of the exercise and the read goes
\* through, get_last_workout returns at least one set, and every set it
\* returns comes from a row of the exercise with the date text (the part
\* before the first comma or space) and the Set_Group_ID of the first
\* record after the descending sort
C23_NonEmptyAndOneSession ==
    (IsLast /\ RowsOf(resp.exercise) # {}) =>
        /\ resp.result.sets # <<>>
        /\ \A k \in 1..Len(resp.result.idx) :
               LET i == resp.result.idx[k]
               IN  /\ i \in RowsOf(resp.exercise)
                   /\ DatePart(log[i].Date) = DatePart(log[LatestRecord].Date)
                   /\ Group(i) = Group(LatestRecord)

\* get_last_workout has left out a row of the exercise that has the date
\* text of the rows it returned and another Set_Group_ID
C23_Witness ==
    /\ IsLast /\ resp.result.sets # <<>>
    /\ \E i \in RowsOf(resp.exercise) \ Range(resp.result.idx) :
           /\ DatePart(log[i].Date) = DatePart(log[resp.result.idx[1]].Date)
           /\ Group(i) # Group(resp.result.idx[1])


\* a body the save handlers must refuse: not of type workout_data, or with
\* an empty or missing payload
InvalidBody(data) ==
    \/ "type" \notin DOMAIN data
    \/ data.type # "workout_data"
    \/ "payload" \notin DOMAIN data
    \/ data.payload = <<>>

\* the reply of a save handler is an error
ErrorReply(r) ==
    \/ r.op = "post" /\ r.status = "error"
    \/ r.op = "webapp_data" /\ r.answer \in {"bad format", "no data", "error"}

\* C24: handle_webapp_data and handle_webapp_post, given data whose type is
\* not workout_data or whose payload is empty or missing, do not call
\* save_workout_log, leave the log as it was and reply with an error
C24_InvalidWritesNothing ==
    (resp.op \in {"post", "webapp_data"} /\ InvalidBody(resp.data)) =>
        /\ ~Saved
        /\ log = resp.before
        /\ \A n \in 1..Len(journal) : journal[n].last <= Len(resp.before)
        /\ ErrorReply(resp)

\* a request was refused with rows in the sheet
C24_Witness ==
    /\ log # <<>>
    /\ resp.op \in {"post", "webapp_data"}
    /\ "payload" \notin DOMAIN resp.data

\* C25: handle_webapp_post answers with status success exactly when
\* save_workout_log returned True; when the confirmation message cannot be
\* sent after a successful write the response is still success and the
\* rows stay in the sheet; when save_workout_log returned False the
\* response is an error and no confirmation is sent
C25_PostStatus ==
    resp.op = "post" =>
        /\ resp.status = "success" <=> (Saved /\ resp.success)
        /\ (Saved /\ ~resp.success) =>
               (resp.status = "error" /\ resp.notified = "none")
        /\ (Saved /\ resp.success /\ resp.notified = "failed") =>
               /\ resp.status = "success"
               /\ Len(log) = Len(resp.before) + Len(resp.payload)
               /\ \A i \in 1..Len(resp.before) : log[i] = resp.before[i]
               /\ \A k \in 1..Len(resp.payload) :
                      log[Len(resp.before) + k].Exercise = resp.payload[k].exercise

\* a save went through and its confirmation could not be sent
C25_Witness ==
    /\ resp.op = "post" /\ Saved /\ resp.success
    /\ resp.notified = "failed" /\ resp.payload # <<>>


\* C28: the two queries agree on the rest of a row: the rest
\* get_last_workout returns for a row is the rest get_exercise_history
\* computes from the same Rest cell, for every content of the cell
C28_QueriesAgreeOnRest ==
    (IsLast /\ header = StandardHeader) =>
        \A k \in 1..Len(resp.result.sets) :
            resp.result.sets[k].rest = HistRest(RestCellOf(k))


\* a value the conversation may pass to add_exercise as a name or a group
Present(v) == v # None /\ v # <<>>

\* C26: whenever the FSM is in waiting_for_photo the stored data holds a
\* non-empty exercise_name and a non-empty muscle_group, whatever the order
\* of the messages and button presses
C26_PhotoStateHasNameAndGroup ==
    state.state = "waiting_for_photo" =>
        /\ Present(state.data.exercise_name)
        /\ Present(state.data.muscle_group)

\* C27: add_exercise is called only by process_photo and skip_photo, from
\* waiting_for_photo, at most once between two set_state calls, and after
\* the call the FSM state and its data are cleared
C27_OneWritePerVisit ==
    /\ chat.calls <= 1
    /\ chat.last.called =>
           /\ chat.last.handler \in {"process_photo", "skip_photo"}
           /\ chat.last.from = "waiting_for_photo"
           /\ state = [state |-> "None", data |-> NoData]

====
